---- MODULE Spec2Model ----
\* A model of the configuration module (backend-local/src/config/index.js) and
\* of the OpenAI service singleton (class OpenAIService).
EXTENDS Integers, Sequences, FiniteSets, TLC

VARIABLES
    phase,       \* "start" | "config" (config module evaluated) | "ready" (service constructed)
    env,         \* process.env, as it stands after dotenv.config()
    config,      \* the exported config object
    validation,  \* outcome of the last validateConfig() call
    svc,         \* the OpenAIService singleton: its fields openai and model
    calls        \* the invocations of the service's methods, by slot

vars == <<phase, env, config, validation, svc, calls>>

-----------------------------------------------------------------------------
\* JavaScript values. Every value carries the three fields so that values of
\* different JavaScript types can be compared.

Undefined == [tag |-> "undefined", s |-> "", n |-> 0]
Null == [tag |-> "null", s |-> "", n |-> 0]
\* a key that is not present in an object literal
Absent == [tag |-> "absent", s |-> "", n |-> 0]
True == [tag |-> "boolean", s |-> "", n |-> 1]
Str(x) == [tag |-> "string", s |-> x, n |-> 0]
\* numbers are integers, except temperatures, which are counted in tenths
Num(k) == [tag |-> "number", s |-> "", n |-> k]

\* ToBoolean
Truthy(v) ==
    \/ v.tag = "string" /\ v.s # ""
    \/ v.tag = "number" /\ v.n # 0
    \/ v.tag = "boolean" /\ v.n # 0

\* a || b
Or(a, b) == IF Truthy(a) THEN a ELSE b

RECURSIVE Join(_, _)
\* Array.prototype.join on an array of strings
Join(arr, sep) ==
    IF Len(arr) = 0 THEN ""
    ELSE IF Len(arr) = 1 THEN arr[1]
    ELSE arr[1] \o sep \o Join(Tail(arr), sep)

\* String.prototype.includes
Includes(str, sub) ==
    \E i \in 1..(Len(str) - Len(sub) + 1) : SubSeq(str, i, i + Len(sub) - 1) = sub

-----------------------------------------------------------------------------
\* config/index.js

EnvVars == {"PORT", "NODE_ENV", "OPENAI_API_KEY", "CORS_ORIGIN"}

\* The values a variable of process.env can have: unset, empty, or a string.
EnvValues(name) ==
    {Undefined, Str("")} \cup
        {Str(CASE name = "PORT" -> "8080"
               [] name = "NODE_ENV" -> "production"
               [] name = "OPENAI_API_KEY" -> "sk-test"
               [] OTHER -> "https://app.example.com")}

Environments == {e \in [EnvVars -> UNION {EnvValues(v) : v \in EnvVars}] :
                    \A v \in EnvVars : e[v] \in EnvValues(v)}

DefaultPort == 3000
DefaultNodeEnv == "development"
DefaultCorsOrigin == "http://localhost:5173"

\* the config object with ?? in place of ||
LoadConfigNullish(e) ==
    [port |-> IF e["PORT"] = Undefined THEN Num(DefaultPort) ELSE e["PORT"],
     nodeEnv |-> IF e["NODE_ENV"] = Undefined THEN Str(DefaultNodeEnv) ELSE e["NODE_ENV"],
     openai |-> [apiKey |-> e["OPENAI_API_KEY"]],
     cors |-> [origin |-> IF e["CORS_ORIGIN"] = Undefined THEN Str(DefaultCorsOrigin)
                          ELSE e["CORS_ORIGIN"]]]

\* const config = { ... }
LoadConfig(e) ==
    [port |-> Or(e["PORT"], Num(DefaultPort)),
     nodeEnv |-> Or(e["NODE_ENV"], Str(DefaultNodeEnv)),
     openai |-> [apiKey |-> e["OPENAI_API_KEY"]],
     cors |-> [origin |-> Or(e["CORS_ORIGIN"], Str(DefaultCorsOrigin))]]

requiredVars == <<"OPENAI_API_KEY">>

\* requiredVars.filter(varName => !process.env[varName])
MissingVars(e) == SelectSeq(requiredVars, LAMBDA varName : ~Truthy(e[varName]))

NotCalled == [called |-> FALSE, threw |-> FALSE, message |-> ""]

\* validateConfig() with the test varName => process.env[varName] === undefined
ValidateConfigUndefinedOnly(e) ==
    IF e["OPENAI_API_KEY"] = Undefined
    THEN [called |-> TRUE, threw |-> TRUE,
          message |-> "Missing required environment variables: OPENAI_API_KEY"]
    ELSE [called |-> TRUE, threw |-> FALSE, message |-> ""]

\* validateConfig(): what the call does, as seen by its caller
ValidateConfig(e) ==
    IF Len(MissingVars(e)) > 0
    THEN [called |-> TRUE, threw |-> TRUE,
          message |-> "Missing required environment variables: "
                        \o Join(MissingVars(e), ", ")]
    ELSE [called |-> TRUE, threw |-> FALSE, message |-> ""]

NoConfig ==
    [port |-> Undefined, nodeEnv |-> Undefined, openai |-> [apiKey |-> Undefined],
     cors |-> [origin |-> Undefined]]

NoService == [openai |-> [apiKey |-> Undefined], model |-> ""]

\* Evaluation of the config module: lines 3-14.
ConfigModuleLoad ==
    /\ phase = "start"
    /\ phase' = "config"
    /\ config' = LoadConfig(env)
    /\ UNCHANGED <<env, validation, svc, calls>>

\* A call of validateConfig() by the importing module.
ValidateConfigCall ==
    /\ phase # "start"
    /\ validation' = ValidateConfig(env)
    /\ UNCHANGED <<phase, env, config, svc, calls>>

-----------------------------------------------------------------------------
\* class OpenAIService and its exported singleton

DefaultModel == "gpt-4o-mini"
DefaultMaxTokens == 1000
\* 0.7, in tenths
DefaultTemperature == 7

\* constructor()
Constructor(cfg) == [openai |-> [apiKey |-> cfg.openai.apiKey], model |-> DefaultModel]

\* Evaluation of the service module: export default new OpenAIService().
ServiceConstruct ==
    /\ phase = "config"
    /\ phase' = "ready"
    /\ svc' = Constructor(config)
    /\ UNCHANGED <<env, config, validation, calls>>

UserMessage(content) == [role |-> "user", content |-> content]

\* The argument of chat.completions.create; a key the literal does not have is Absent.
NoRequest ==
    [model |-> Absent, messages |-> <<>>, max_tokens |-> Absent,
     temperature |-> Absent, stream |-> Absent]

\* What the upstream call settles with: a rejection with an error, or a
\* fulfilment with a response (a completion with its choices, or a stream).
NoResponse == [kind |-> "none", id |-> "", choices |-> <<>>]
NoOutcome == [kind |-> "none", error |-> "", response |-> NoResponse]
Reject(msg) == [kind |-> "reject", error |-> msg, response |-> NoResponse]
Resolve(resp) == [kind |-> "resolve", error |-> "", response |-> resp]
Choice(content) == [hasMessage |-> TRUE, content |-> content]
ChoiceWithoutMessage == [hasMessage |-> FALSE, content |-> Undefined]
Completion(id, choices) == [kind |-> "completion", id |-> id, choices |-> choices]
Stream(id) == [kind |-> "stream", id |-> id, choices |-> <<>>]

\* What a method body hands to its caller: a value or a thrown Error.
NoResult == [kind |-> "none", value |-> Undefined, response |-> NoResponse]
Return(v) == [threw |-> FALSE, error |-> "", result |-> [kind |-> "value", value |-> v, response |-> NoResponse]]
ReturnResponse(r) == [threw |-> FALSE, error |-> "", result |-> [kind |-> "response", value |-> Undefined, response |-> r]]
Throw(msg) == [threw |-> TRUE, error |-> msg, result |-> NoResult]

\* The part of a method body before its await: a request, or a throw into the catch.
Send(req) == [threw |-> FALSE, error |-> "", request |-> req]
Fail(msg) == [threw |-> TRUE, error |-> msg, request |-> NoRequest]

\* The options argument: omitted (the default parameter makes it {}), null, or
\* an object whose keys may be unset.
OmittedOptions == [kind |-> "undefined", model |-> Undefined, maxTokens |-> Undefined, temperature |-> Undefined]
NullOptions == [kind |-> "null", model |-> Undefined, maxTokens |-> Undefined, temperature |-> Undefined]
ObjectOptions(m, k, t) == [kind |-> "object", model |-> m, maxTokens |-> k, temperature |-> t]

\* completion.choices[0].message.content throws a TypeError
ContentReadThrows(resp) ==
    \/ resp.kind # "completion"
    \/ Len(resp.choices) = 0
    \/ ~resp.choices[1].hasMessage

\* generateText, up to the await: lines 19-25
GenerateTextBegin(this, prompt, options) ==
    IF options.kind = "null"
    THEN Fail("Failed to generate text response")
    ELSE Send([model |-> Or(options.model, Str(this.model)),
               messages |-> <<UserMessage(prompt)>>,
               max_tokens |-> Or(options.maxTokens, Num(DefaultMaxTokens)),
               temperature |-> Or(options.temperature, Num(DefaultTemperature)),
               stream |-> Absent])

\* The await of the upstream call followed by the read of
\* completion.choices[0].message.content, inside the try block: the content, or
\* the error thrown there (the rejection's error, or the read's TypeError).
AwaitContent(outcome) ==
    IF outcome.kind = "reject" THEN Throw(outcome.error)
    ELSE IF ContentReadThrows(outcome.response)
    THEN Throw("TypeError: Cannot read properties of undefined")
    ELSE Return(outcome.response.choices[1].content)

\* generateText with a catch block that rethrows the error it caught
GenerateTextEndRethrow(outcome) == AwaitContent(outcome)

\* generateText, after the await: lines 26-30
GenerateTextEnd(outcome) ==
    IF AwaitContent(outcome).threw
    THEN Throw("Failed to generate text response")
    ELSE AwaitContent(outcome)

\* generateTextStream with the max_tokens and temperature lines of generateText
GenerateTextStreamBeginWithLimits(this, prompt) ==
    Send([model |-> Str(this.model),
          messages |-> <<UserMessage(prompt)>>,
          max_tokens |-> Num(DefaultMaxTokens),
          temperature |-> Num(DefaultTemperature),
          stream |-> True])

\* generateTextStream, up to the await: lines 39-44
GenerateTextStreamBegin(this, prompt) ==
    Send([model |-> Str(this.model),
          messages |-> <<UserMessage(prompt)>>,
          max_tokens |-> Absent,
          temperature |-> Absent,
          stream |-> True])

\* generateTextStream, after the await: lines 45-49
GenerateTextStreamEnd(outcome) ==
    IF outcome.kind = "reject"
    THEN Throw("Failed to generate streaming response")
    ELSE ReturnResponse(outcome.response)

\* The history argument: omitted (the default parameter makes it []), null, or an array.
OmittedHistory == [kind |-> "undefined", items |-> <<>>]
NullHistory == [kind |-> "null", items |-> <<>>]
ArrayHistory(items) == [kind |-> "array", items |-> items]

\* history.push({ role: 'user', content: message }); const messages = history
ChatMessagesPush(history, message) ==
    [messages |-> Append(history, UserMessage(message)),
     history |-> Append(history, UserMessage(message))]

\* const messages = [...history, { role: 'user', content: message }]: the new
\* array, and the history array as the statement leaves it.
ChatMessages(history, message) ==
    [messages |-> history \o <<UserMessage(message)>>, history |-> history]

\* chat, up to the await: lines 59-69
ChatBegin(this, history, message) ==
    IF history.kind = "null"
    THEN Fail("Failed to process chat message")
    ELSE Send([model |-> Str(this.model),
               messages |-> ChatMessages(history.items, message).messages,
               max_tokens |-> Num(DefaultMaxTokens),
               temperature |-> Absent,
               stream |-> Absent])

\* chat, after the await: lines 71-75
ChatEnd(outcome) ==
    IF AwaitContent(outcome).threw
    THEN Throw("Failed to process chat message")
    ELSE AwaitContent(outcome)

\* Timetable data: a JSON-like value. Every node carries the same fields;
\* "cyclic" stands for an object that refers to itself.
Atom(t, n, s) == [t |-> t, n |-> n, s |-> s, keys |-> <<>>, items |-> <<>>]
UndefinedData == Atom("undefined", 0, "")
NumData(n) == Atom("number", n, "")
StrData(s) == Atom("string", 0, s)
ArrData(items) == [t |-> "array", n |-> 0, s |-> "", keys |-> <<>>, items |-> items]
ObjData(keys, items) == [t |-> "object", n |-> 0, s |-> "", keys |-> keys, items |-> items]
CyclicData == Atom("cyclic", 0, "")

\* a JSON string literal (the strings of the model hold no character to escape)
Quote(s) == "\"" \o s \o "\""

RECURSIVE Serialize(_), SerializeElements(_), SerializeMembers(_, _)
\* JSON.stringify of a value that is neither undefined nor cyclic
Serialize(v) ==
    CASE v.t = "number" -> ToString(v.n)
      [] v.t = "string" -> Quote(v.s)
      [] v.t = "array" -> "[" \o SerializeElements(v.items) \o "]"
      [] v.t = "object" -> "{" \o SerializeMembers(v.keys, v.items) \o "}"
      [] OTHER -> "null"

\* the elements of an array: undefined is written as null
SerializeElements(items) ==
    IF Len(items) = 0 THEN ""
    ELSE Serialize(items[1])
            \o (IF Len(items) > 1 THEN "," ELSE "")
            \o SerializeElements(Tail(items))

\* the members of an object: a member whose value is undefined is left out
SerializeMembers(keys, items) ==
    IF Len(keys) = 0 THEN ""
    ELSE IF items[1].t = "undefined" THEN SerializeMembers(Tail(keys), Tail(items))
    ELSE Quote(keys[1]) \o ":" \o Serialize(items[1])
            \o (IF \E i \in 2..Len(items) : items[i].t # "undefined" THEN "," ELSE "")
            \o SerializeMembers(Tail(keys), Tail(items))

\* JSON.stringify throws a TypeError on a cyclic structure
StringifyThrows(data) == data.t = "cyclic"

\* `${JSON.stringify(timetableData)}`: JSON.stringify(undefined) is undefined
StringifyText(data) == IF data.t = "undefined" THEN "undefined" ELSE Serialize(data)

\* the default parameter analysisType = 'general'
AnalysisTypeParam(analysisType) ==
    IF analysisType = Undefined THEN Str("general") ELSE analysisType

\* the switch with the break of the 'optimization' case missing
AnalysisTemplateFallThrough(analysisType) ==
    CASE analysisType = Str("conflicts") ->
            "Analyze the following timetable data for scheduling conflicts and provide recommendations: "
      [] analysisType \in {Str("optimization"), Str("load")} ->
            "Analyze the workload distribution in this timetable and suggest improvements: "
      [] OTHER ->
            "Provide a general analysis of this timetable data: "

\* switch (analysisType): the text of the chosen template before the data
AnalysisTemplate(analysisType) ==
    CASE analysisType = Str("conflicts") ->
            "Analyze the following timetable data for scheduling conflicts and provide recommendations: "
      [] analysisType = Str("optimization") ->
            "Suggest optimizations for the following timetable to improve efficiency: "
      [] analysisType = Str("load") ->
            "Analyze the workload distribution in this timetable and suggest improvements: "
      [] OTHER ->
            "Provide a general analysis of this timetable data: "

\* analyzeTimetable, lines 86-100: the prompt
AnalysisPrompt(timetableData, analysisType) ==
    AnalysisTemplate(AnalysisTypeParam(analysisType)) \o StringifyText(timetableData)

\* analyzeTimetable, up to the await inside generateText: lines 85-102
AnalyzeTimetableBegin(this, timetableData, analysisType) ==
    IF StringifyThrows(timetableData)
    THEN Fail("Failed to analyze timetable data")
    ELSE GenerateTextBegin(this, AnalysisPrompt(timetableData, analysisType), OmittedOptions)

\* analyzeTimetable without its own catch: the error of generateText propagates
AnalyzeTimetableEndPropagate(outcome) == GenerateTextEnd(outcome)

\* analyzeTimetable, after generateText settles: lines 102-106
AnalyzeTimetableEnd(outcome) ==
    IF GenerateTextEnd(outcome).threw
    THEN Throw("Failed to analyze timetable data")
    ELSE GenerateTextEnd(outcome)

-----------------------------------------------------------------------------
\* Invocations of the service's methods. An async method runs to its await (or
\* to a throw before it), the upstream call settles, and the method runs on to
\* its return or throw.

NoArgs ==
    [prompt |-> "", options |-> OmittedOptions, history |-> OmittedHistory,
     message |-> "", timetableData |-> UndefinedData, analysisType |-> Undefined]

IdleCall ==
    [pc |-> "idle", method |-> "none", args |-> NoArgs,
     history |-> <<>>,        \* the caller's history array, as the call leaves it
     request |-> NoRequest,   \* the argument of the last chat.completions.create
     requests |-> 0,          \* how many times chat.completions.create was called
     upstream |-> NoOutcome, result |-> NoResult, error |-> ""]

\* the invocation after the part of the body before the await
Started(method, args, begin) ==
    [IdleCall EXCEPT !.pc = IF begin.threw THEN "thrown" ELSE "awaiting",
                     !.method = method,
                     !.args = args,
                     !.history = args.history.items,
                     !.request = begin.request,
                     !.requests = IF begin.threw THEN 0 ELSE 1,
                     !.error = begin.error]

\* the invocation after the part of the body after the await
Finished(call, end) ==
    [call EXCEPT !.pc = IF end.threw THEN "thrown" ELSE "returned",
                 !.result = end.result,
                 !.error = end.error]

\* generateText that stores the model it used: this.model = options.model || this.model
GenerateTextCallStoresModel(i, prompt, options) ==
    /\ phase = "ready"
    /\ calls[i].pc = "idle"
    /\ calls' = [calls EXCEPT ![i] =
                    Started("generateText",
                            [NoArgs EXCEPT !.prompt = prompt, !.options = options],
                            GenerateTextBegin(svc, prompt, options))]
    /\ svc' = [svc EXCEPT !.model = IF options.kind = "null" THEN @
                                    ELSE Or(options.model, Str(@)).s]
    /\ UNCHANGED <<phase, env, config, validation>>

GenerateTextCall(i, prompt, options) ==
    /\ phase = "ready"
    /\ calls[i].pc = "idle"
    /\ calls' = [calls EXCEPT ![i] =
                    Started("generateText",
                            [NoArgs EXCEPT !.prompt = prompt, !.options = options],
                            GenerateTextBegin(svc, prompt, options))]
    /\ UNCHANGED <<phase, env, config, validation, svc>>

GenerateTextStreamCall(i, prompt) ==
    /\ phase = "ready"
    /\ calls[i].pc = "idle"
    /\ calls' = [calls EXCEPT ![i] =
                    Started("generateTextStream",
                            [NoArgs EXCEPT !.prompt = prompt],
                            GenerateTextStreamBegin(svc, prompt))]
    /\ UNCHANGED <<phase, env, config, validation, svc>>

ChatCall(i, history, message) ==
    /\ phase = "ready"
    /\ calls[i].pc = "idle"
    /\ calls' = [calls EXCEPT ![i] =
                    [Started("chat",
                             [NoArgs EXCEPT !.history = history, !.message = message],
                             ChatBegin(svc, history, message))
                        EXCEPT !.history = IF history.kind = "null" THEN <<>>
                                           ELSE ChatMessages(history.items, message).history]]
    /\ UNCHANGED <<phase, env, config, validation, svc>>

AnalyzeTimetableCall(i, timetableData, analysisType) ==
    /\ phase = "ready"
    /\ calls[i].pc = "idle"
    /\ calls' = [calls EXCEPT ![i] =
                    Started("analyzeTimetable",
                            [NoArgs EXCEPT !.timetableData = timetableData,
                                           !.analysisType = analysisType],
                            AnalyzeTimetableBegin(svc, timetableData, analysisType))]
    /\ UNCHANGED <<phase, env, config, validation, svc>>

\* The promise of chat.completions.create settles.
UpstreamSettle(i, outcome) ==
    /\ calls[i].pc = "awaiting"
    /\ calls' = [calls EXCEPT ![i].pc = "settled", ![i].upstream = outcome]
    /\ UNCHANGED <<phase, env, config, validation, svc>>

\* generateText that calls the upstream again after a first rejection
GenerateTextResumeRetry(i) ==
    /\ calls[i].pc = "settled"
    /\ calls[i].method = "generateText"
    /\ calls' = [calls EXCEPT ![i] =
                    IF @.upstream.kind = "reject" /\ @.requests < 2
                    THEN [@ EXCEPT !.pc = "awaiting", !.requests = @ + 1]
                    ELSE Finished(@, GenerateTextEnd(@.upstream))]
    /\ UNCHANGED <<phase, env, config, validation, svc>>

GenerateTextResume(i) ==
    /\ calls[i].pc = "settled"
    /\ calls[i].method = "generateText"
    /\ calls' = [calls EXCEPT ![i] = Finished(@, GenerateTextEnd(@.upstream))]
    /\ UNCHANGED <<phase, env, config, validation, svc>>

GenerateTextStreamResume(i) ==
    /\ calls[i].pc = "settled"
    /\ calls[i].method = "generateTextStream"
    /\ calls' = [calls EXCEPT ![i] = Finished(@, GenerateTextStreamEnd(@.upstream))]
    /\ UNCHANGED <<phase, env, config, validation, svc>>

ChatResume(i) ==
    /\ calls[i].pc = "settled"
    /\ calls[i].method = "chat"
    /\ calls' = [calls EXCEPT ![i] = Finished(@, ChatEnd(@.upstream))]
    /\ UNCHANGED <<phase, env, config, validation, svc>>

AnalyzeTimetableResume(i) ==
    /\ calls[i].pc = "settled"
    /\ calls[i].method = "analyzeTimetable"
    /\ calls' = [calls EXCEPT ![i] = Finished(@, AnalyzeTimetableEnd(@.upstream))]
    /\ UNCHANGED <<phase, env, config, validation, svc>>

-----------------------------------------------------------------------------
\* Inputs

MaxHistoryLen == 2
MaxCalls == 2

Prompts == {"hello", "Plan my week"}

OptionsArgs ==
    {OmittedOptions, NullOptions} \cup
        {ObjectOptions(m, k, t) : m \in {Undefined, Str("gpt-4o")},
                                  k \in {Undefined, Num(0), Num(50)},
                                  t \in {Undefined, Num(0), Num(2)}}

ChatMessagePool ==
    {[role |-> "user", content |-> "hi"], [role |-> "assistant", content |-> "Hello!"]}

HistoryArgs ==
    {OmittedHistory, NullHistory} \cup
        {ArrayHistory(h) : h \in UNION {[1..n -> ChatMessagePool] : n \in 0..MaxHistoryLen}}

Messages == {"how are you?"}

TimetableArgs ==
    {ObjData(<<"day", "slots">>, <<StrData("Mon"), ArrData(<<NumData(9), NumData(10)>>)>>),
     ObjData(<<"room", "teacher">>, <<UndefinedData, StrData("Rao")>>),
     UndefinedData,
     CyclicData}

AnalysisTypeArgs ==
    {Undefined, Null, Str("conflicts"), Str("optimization"), Str("load"),
     Str("general"), Str("nonsense"), Str("Conflicts")}

Outcomes ==
    {Reject("429 Rate limit exceeded"),
     Resolve(Completion("cmpl-1", <<Choice(Str("Hi there"))>>)),
     Resolve(Completion("cmpl-2", <<Choice(Str("first")), Choice(Str("second"))>>)),
     Resolve(Completion("cmpl-3", <<Choice(Null)>>)),
     Resolve(Completion("cmpl-4", <<>>)),
     Resolve(Completion("cmpl-5", <<ChoiceWithoutMessage>>)),
     Resolve(Stream("stream-1"))}

-----------------------------------------------------------------------------
\* The process from its start: the modules are evaluated, then the service's
\* methods are invoked, one invocation at a time.

Init ==
    /\ phase = "start"
    /\ env \in Environments
    /\ config = NoConfig
    /\ validation = NotCalled
    /\ svc = NoService
    /\ calls = [i \in {1} |-> IdleCall]

Next ==
    \/ ConfigModuleLoad
    \/ ValidateConfigCall
    \/ ServiceConstruct
    \/ \E i \in DOMAIN calls, prompt \in Prompts, options \in OptionsArgs :
            GenerateTextCall(i, prompt, options)
    \/ \E i \in DOMAIN calls, prompt \in Prompts :
            GenerateTextStreamCall(i, prompt)
    \/ \E i \in DOMAIN calls, history \in HistoryArgs, message \in Messages :
            ChatCall(i, history, message)
    \/ \E i \in DOMAIN calls, data \in TimetableArgs, type \in AnalysisTypeArgs :
            AnalyzeTimetableCall(i, data, type)
    \/ \E i \in DOMAIN calls, outcome \in Outcomes : UpstreamSettle(i, outcome)
    \/ \E i \in DOMAIN calls : GenerateTextResume(i)
    \/ \E i \in DOMAIN calls : GenerateTextStreamResume(i)
    \/ \E i \in DOMAIN calls : ChatResume(i)
    \/ \E i \in DOMAIN calls : AnalyzeTimetableResume(i)

Spec == Init /\ [][Next]_vars

-----------------------------------------------------------------------------
\* The constructed service under concurrent invocations: every slot is an
\* invocation that may be in flight at the same time as the others.

ConcEnv ==
    [v \in EnvVars |-> IF v = "OPENAI_API_KEY" THEN Str("sk-test") ELSE Undefined]

ConcOptionsArgs == {OmittedOptions, ObjectOptions(Str("gpt-4o"), Undefined, Num(2))}
ConcHistoryArgs == {OmittedHistory, ArrayHistory(<<[role |-> "user", content |-> "hi"]>>)}
ConcTimetableArgs == {ArrData(<<NumData(9)>>)}
ConcAnalysisTypeArgs == {Undefined, Str("conflicts")}
ConcOutcomes ==
    {Reject("429 Rate limit exceeded"),
     Resolve(Completion("cmpl-1", <<Choice(Str("Hi there"))>>)),
     Resolve(Completion("cmpl-2", <<Choice(Str("Bye"))>>))}

InitConc ==
    /\ phase = "ready"
    /\ env = ConcEnv
    /\ config = LoadConfig(env)
    /\ validation = NotCalled
    /\ svc = Constructor(config)
    /\ calls = [i \in 1..MaxCalls |-> IdleCall]

NextConc ==
    \/ \E i \in DOMAIN calls, options \in ConcOptionsArgs :
            GenerateTextCall(i, "hello", options)
    \/ \E i \in DOMAIN calls : GenerateTextStreamCall(i, "hello")
    \/ \E i \in DOMAIN calls, history \in ConcHistoryArgs :
            ChatCall(i, history, "how are you?")
    \/ \E i \in DOMAIN calls, data \in ConcTimetableArgs, type \in ConcAnalysisTypeArgs :
            AnalyzeTimetableCall(i, data, type)
    \/ \E i \in DOMAIN calls, outcome \in ConcOutcomes : UpstreamSettle(i, outcome)
    \/ \E i \in DOMAIN calls : GenerateTextResume(i)
    \/ \E i \in DOMAIN calls : GenerateTextStreamResume(i)
    \/ \E i \in DOMAIN calls : ChatResume(i)
    \/ \E i \in DOMAIN calls : AnalyzeTimetableResume(i)

SpecConc == InitConc /\ [][NextConc]_vars

-----------------------------------------------------------------------------
\* Properties

KeyMissing == env["OPENAI_API_KEY"] \in {Undefined, Str("")}

\* C1: a validateConfig() call throws exactly when OPENAI_API_KEY is absent or
\* empty in the environment at the call, the thrown message names
\* OPENAI_API_KEY, and the call changes nothing but its own outcome.
C1_ValidateThrowsIffKeyMissing ==
    [][validation' # validation =>
        /\ validation'.called
        /\ validation'.threw <=> KeyMissing
        /\ validation'.threw => Includes(validation'.message, "OPENAI_API_KEY")
        /\ UNCHANGED <<phase, env, config, svc, calls>>]_vars

\* validateConfig() has thrown on an empty OPENAI_API_KEY
C1_Witness ==
    /\ validation.called
    /\ validation.threw
    /\ env["OPENAI_API_KEY"] = Str("")

Slots == DOMAIN calls

IssuedBy(i, method) == calls[i].method = method /\ calls[i].requests >= 1

\* C2: every generateText request carries, for each of model, maxTokens and
\* temperature, the value set in options when the key is set (0 included) and
\* the default when it is unset.
C2_SetOptionsAreCarried ==
    \A i \in Slots :
        IssuedBy(i, "generateText") =>
            LET o == calls[i].args.options
                r == calls[i].request
            IN  /\ r.model = IF o.model # Undefined THEN o.model ELSE Str("gpt-4o-mini")
                /\ r.max_tokens = IF o.maxTokens # Undefined THEN o.maxTokens ELSE Num(1000)
                /\ r.temperature = IF o.temperature # Undefined THEN o.temperature ELSE Num(7)

ConfigField(name) ==
    CASE name = "PORT" -> config.port
      [] name = "NODE_ENV" -> config.nodeEnv
      [] name = "OPENAI_API_KEY" -> config.openai.apiKey
      [] OTHER -> config.cors.origin

ConfigDefault(name) ==
    CASE name = "PORT" -> Num(3000)
      [] name = "NODE_ENV" -> Str("development")
      [] name = "OPENAI_API_KEY" -> Undefined
      [] OTHER -> Str("http://localhost:5173")

\* C3 as stated: once the config module is loaded, the field of every set
\* variable equals the set value, and the field of every unset optional variable
\* equals its default.
C3_FieldsEqualSetValues ==
    phase # "start" =>
        \A name \in EnvVars :
            /\ env[name] # Undefined => ConfigField(name) = env[name]
            /\ env[name] = Undefined /\ name # "OPENAI_API_KEY"
                    => ConfigField(name) = ConfigDefault(name)

\* C3, amended: once the config module is loaded, the field of every variable
\* set to a non-empty value equals that value, the field of every optional
\* variable that is unset or empty equals its default, and the api key equals
\* the variable's value, empty or undefined included.
C3_FieldsEqualNonEmptyValues ==
    phase # "start" =>
        \A name \in EnvVars :
            /\ env[name] \notin {Undefined, Str("")} => ConfigField(name) = env[name]
            /\ env[name] \in {Undefined, Str("")} /\ name # "OPENAI_API_KEY"
                    => ConfigField(name) = ConfigDefault(name)
            /\ name = "OPENAI_API_KEY" => ConfigField(name) = env[name]

\* the config module is loaded with PORT empty, NODE_ENV set and CORS_ORIGIN unset
C3_Witness ==
    /\ phase # "start"
    /\ env["PORT"] = Str("")
    /\ env["NODE_ENV"] = Str("production")
    /\ env["CORS_ORIGIN"] = Undefined
    /\ config.port = Num(3000)
    /\ config.nodeEnv = Str("production")

Ended(i) == calls[i].pc \in {"returned", "thrown"}

\* the first completion's content can be read from the settled upstream call
ContentReadable(o) ==
    /\ o.kind = "resolve"
    /\ o.response.kind = "completion"
    /\ Len(o.response.choices) >= 1
    /\ o.response.choices[1].hasMessage

\* C4: a generateText invocation whose upstream call failed, or answered
\* without a readable first content, ends with the error 'Failed to generate
\* text response', which is not the upstream error; otherwise it returns the
\* first choice's content.
C4_GenerateTextErrorIsFixed ==
    \A i \in Slots :
        IssuedBy(i, "generateText") /\ Ended(i) =>
            IF ContentReadable(calls[i].upstream)
            THEN /\ calls[i].pc = "returned"
                 /\ calls[i].result.kind = "value"
                 /\ calls[i].result.value = calls[i].upstream.response.choices[1].content
            ELSE /\ calls[i].pc = "thrown"
                 /\ calls[i].error = "Failed to generate text response"
                 /\ calls[i].error # calls[i].upstream.error

\* a generateText invocation has thrown after the upstream call rejected
C4_Witness ==
    \E i \in Slots :
        /\ IssuedBy(i, "generateText")
        /\ calls[i].pc = "thrown"
        /\ calls[i].upstream.kind = "reject"

\* C5: a chat invocation with a history sequence (or none) sends the history in
\* order followed by the user message, with the default model, max_tokens 1000
\* and no temperature, and leaves the caller's history as it was.
C5_ChatSendsHistoryThenMessage ==
    \A i \in Slots :
        calls[i].method = "chat" /\ calls[i].args.history.kind # "null" =>
            LET h == calls[i].args.history.items
                r == calls[i].request
            IN  /\ calls[i].requests = 1
                /\ Len(r.messages) = Len(h) + 1
                /\ \A k \in 1..Len(h) : r.messages[k] = h[k]
                /\ r.messages[Len(h) + 1] =
                        [role |-> "user", content |-> calls[i].args.message]
                /\ r.model = Str("gpt-4o-mini")
                /\ r.max_tokens = Num(1000)
                /\ r.temperature = Absent
                /\ calls[i].history = h

\* a chat invocation with a history of two messages is in flight
C5_Witness ==
    \E i \in Slots :
        /\ calls[i].method = "chat"
        /\ calls[i].pc = "awaiting"
        /\ Len(calls[i].args.history.items) = 2
        /\ calls[i].args.history.items[1] # calls[i].args.history.items[2]

TemplateOf(analysisType) ==
    IF analysisType = Str("conflicts")
    THEN "Analyze the following timetable data for scheduling conflicts and provide recommendations: "
    ELSE IF analysisType = Str("optimization")
    THEN "Suggest optimizations for the following timetable to improve efficiency: "
    ELSE IF analysisType = Str("load")
    THEN "Analyze the workload distribution in this timetable and suggest improvements: "
    ELSE "Provide a general analysis of this timetable data: "

\* C6: the prompt of an analyzeTimetable request is the template of its
\* analysisType ('conflicts', 'optimization', 'load', each its own, and the
\* general one for anything else) followed by the serialized data, sent as
\* generateText sends a prompt without option overrides.
C6_TemplateByExactMatch ==
    \A i \in Slots :
        IssuedBy(i, "analyzeTimetable") =>
            LET a == calls[i].args
                r == calls[i].request
            IN  /\ Len(r.messages) = 1
                /\ r.messages[1].role = "user"
                /\ r.messages[1].content =
                        TemplateOf(a.analysisType) \o StringifyText(a.timetableData)
                /\ a.analysisType = Str("conflicts")
                        => Includes(r.messages[1].content, "scheduling conflicts")
                /\ a.analysisType \in {Str("conflicts"), Str("optimization"), Str("load")}
                        => \A other \in AnalysisTypeArgs \ {a.analysisType} :
                                TemplateOf(other) # TemplateOf(a.analysisType)
                /\ r.model = Str("gpt-4o-mini")
                /\ r.max_tokens = Num(1000)
                /\ r.temperature = Num(7)
                /\ r.stream = Absent

\* an analyzeTimetable invocation of type 'optimization' has sent its request
C6_Witness ==
    \E i \in Slots :
        /\ IssuedBy(i, "analyzeTimetable")
        /\ calls[i].args.analysisType = Str("optimization")
        /\ calls[i].args.timetableData.t = "object"

\* C7: an analyzeTimetable invocation whose generateText call failed ends with
\* the error 'Failed to analyze timetable data', which is neither the error of
\* generateText nor the upstream error; otherwise it returns what generateText
\* returned.
C7_AnalysisErrorIsFixed ==
    \A i \in Slots :
        IssuedBy(i, "analyzeTimetable") /\ Ended(i) =>
            IF ContentReadable(calls[i].upstream)
            THEN /\ calls[i].pc = "returned"
                 /\ calls[i].result.kind = "value"
                 /\ calls[i].result.value = calls[i].upstream.response.choices[1].content
            ELSE /\ calls[i].pc = "thrown"
                 /\ calls[i].error = "Failed to analyze timetable data"
                 /\ calls[i].error # "Failed to generate text response"
                 /\ calls[i].error # calls[i].upstream.error

\* an analyzeTimetable invocation has thrown after the upstream call rejected
C7_Witness ==
    \E i \in Slots :
        /\ IssuedBy(i, "analyzeTimetable")
        /\ calls[i].pc = "thrown"
        /\ calls[i].upstream.kind = "reject"

\* C8: a generateTextStream request has the default model, the prompt as its
\* one user message, stream enabled and neither max_tokens nor temperature; the
\* invocation throws 'Failed to generate streaming response' when the upstream
\* call rejects and returns the upstream's response as it is otherwise.
C8_StreamRequestAndResult ==
    \A i \in Slots :
        calls[i].method = "generateTextStream" =>
            /\ calls[i].requests = 1
            /\ calls[i].request =
                    [model |-> Str("gpt-4o-mini"),
                     messages |-> <<[role |-> "user", content |-> calls[i].args.prompt]>>,
                     max_tokens |-> Absent,
                     temperature |-> Absent,
                     stream |-> True]
            /\ Ended(i) =>
                    IF calls[i].upstream.kind = "reject"
                    THEN /\ calls[i].pc = "thrown"
                         /\ calls[i].error = "Failed to generate streaming response"
                    ELSE /\ calls[i].pc = "returned"
                         /\ calls[i].result.kind = "response"
                         /\ calls[i].result.response = calls[i].upstream.response

\* a generateTextStream invocation has returned the upstream's stream
C8_Witness ==
    \E i \in Slots :
        /\ calls[i].method = "generateTextStream"
        /\ calls[i].pc = "returned"
        /\ calls[i].result.response.kind = "stream"

ErrorOf(method) ==
    CASE method = "generateText" -> "Failed to generate text response"
      [] method = "generateTextStream" -> "Failed to generate streaming response"
      [] method = "chat" -> "Failed to process chat message"
      [] OTHER -> "Failed to analyze timetable data"

\* C9: an invocation issues at most one upstream request; once the upstream
\* call has failed the invocation issues no further request and its only way on
\* is to throw its method's error; an invocation that returned issued exactly
\* one request.
C9_AtMostOneRequest ==
    \A i \in Slots :
        /\ calls[i].requests <= 1
        /\ calls[i].pc = "returned" => calls[i].requests = 1
        /\ calls[i].pc = "thrown" => calls[i].error = ErrorOf(calls[i].method)
        /\ calls[i].upstream.kind = "reject" =>
                /\ calls[i].requests = 1
                /\ calls[i].pc \in {"settled", "thrown"}

\* an invocation has thrown after its one upstream request was rejected
C9_Witness ==
    \E i \in Slots :
        /\ calls[i].pc = "thrown"
        /\ calls[i].upstream.kind = "reject"
        /\ calls[i].requests = 1
        /\ calls[i].method = "chat"

\* C10: whatever the interleaving of invocations, the service's model and
\* client stay as constructed, every request carries the model its own
\* arguments determine, a chat request holds its own history and message only,
\* and two invocations of the same method with the same arguments (and the same
\* upstream outcome) have the same request (and the same result or error).
C10_InvocationsAreIndependent ==
    /\ svc.model = "gpt-4o-mini"
    /\ svc.openai.apiKey = config.openai.apiKey
    /\ \A i \in Slots :
        calls[i].requests >= 1 =>
            /\ calls[i].request.model =
                    IF calls[i].method = "generateText"
                            /\ calls[i].args.options.model.tag = "string"
                            /\ calls[i].args.options.model.s # ""
                    THEN calls[i].args.options.model
                    ELSE Str("gpt-4o-mini")
            /\ calls[i].method = "chat" =>
                    Len(calls[i].request.messages) = Len(calls[i].args.history.items) + 1
    /\ \A i, j \in Slots :
        calls[i].method = calls[j].method /\ calls[i].args = calls[j].args =>
            /\ calls[i].requests >= 1 /\ calls[j].requests >= 1
                    => calls[i].request = calls[j].request
            /\ Ended(i) /\ Ended(j) /\ calls[i].upstream = calls[j].upstream
                    => /\ calls[i].pc = calls[j].pc
                       /\ calls[i].result = calls[j].result
                       /\ calls[i].error = calls[j].error

\* a chat invocation is in flight after a generateText invocation with another
\* model has ended
C10_Witness ==
    \E i, j \in Slots :
        /\ i # j
        /\ calls[i].method = "generateText"
        /\ calls[i].args.options.model = Str("gpt-4o")
        /\ Ended(i)
        /\ calls[j].method = "chat"
        /\ calls[j].pc = "awaiting"

====
